---- MODULE Spec2Model ----
(***************************************************************************)
(* Model of system/utest/debugger/debugger.c: the debugger test driver      *)
(* (main, its watchdog thread, debugger_test with its exception-monitor      *)
(* thread, debugger_thread_list_test) and the inferior process it launches  *)
(* (test_inferior / msg_loop / test_prep_and_segv).  The helpers of utils.c  *)
(* (setup_inferior, shutdown_inferior, send_msg, recv_msg, the register and  *)
(* memory accessors) and the unittest macros are not part of the sources at  *)
(* hand; they are modelled from the design document.                         *)
(***************************************************************************)
EXTENDS Integers, Sequences, FiniteSets, TLC

\* ------------------------------------------------------------ constants
WATCHDOG_DURATION_TICKS == 10
TEST_MEMORY_SIZE == 8
TEST_DATA_ADJUST == 16
NUM_SEGV_TRIES == 4
NUM_EXTRA_THREADS == 4

\* exit codes
EXIT_WATCHDOG == 5
EXIT_MSG_LOOP_FAILED == 20
EXIT_BAD_DATA == 21
EXIT_INFERIOR_DONE == 1234
EXIT_SUCCESS == 0
EXIT_TEST_FAILED == -1

\* At most this many notifications of a kind that is neither architectural
\* nor process-gone are injected on the exception port in one run.
MaxSpurious == 1

\* At most this many messages of a kind msg_loop has no case for are put on the
\* control channel of one inferior.
MaxUnknown == 1

\* Value of the stack pointer of the inferior's main thread inside
\* test_prep_and_segv; test_data[] is the stack array found there.
StackBase == 64

ByteMod == 256

\* Values an uninitialised byte of the supervisor's local test_data[] may hold.
GarbageBytes == {0, 255}

\* Byte counts a short read or a short write may report.
ShortLens == {0, TEST_MEMORY_SIZE - 1}

Idx == 0 .. (TEST_MEMORY_SIZE - 1)

\* enum message (utils.h)
MSG_DONE == "MSG_DONE"
MSG_PING == "MSG_PING"
MSG_PONG == "MSG_PONG"
MSG_CRASH == "MSG_CRASH"
MSG_RECOVERED_FROM_CRASH == "MSG_RECOVERED_FROM_CRASH"
MSG_START_EXTRA_THREADS == "MSG_START_EXTRA_THREADS"
MSG_EXTRA_THREADS_STARTED == "MSG_EXTRA_THREADS_STARTED"
Messages == {MSG_DONE, MSG_PING, MSG_PONG, MSG_CRASH, MSG_RECOVERED_FROM_CRASH,
             MSG_START_EXTRA_THREADS, MSG_EXTRA_THREADS_STARTED}

\* Kinds of the enumeration that msg_loop has no case label for (lines 318-345).
UnknownKinds == {MSG_PONG, MSG_RECOVERED_FROM_CRASH, MSG_EXTRA_THREADS_STARTED}

\* ------------------------------------------------------------ state
VARIABLES
    \* driver process
    drvPc,        \* position of the main thread
    drvExit,      \* <<>> while the driver process runs, <<code>> once it ended
    done_tests,   \* the driver's copy of the global done_tests
    all_ok,       \* current_test_info->all_ok of the running test case
    results,      \* what RUN_TEST recorded for debugger_test (1) and debugger_thread_list_test (2)
    msg,          \* the test case's local "enum message msg"
    pipeOpen,     \* the driver still holds its end of the control channel
    eportOpen,    \* the driver still holds the exception port of debugger_test's inferior
    numThreads,   \* threads->hdr.count as mx_object_get_info returned it
    tlIdx,        \* loop index of the entry check in debugger_thread_list_test
    \* watchdog thread
    wdPc, wdI,
    \* exception-monitor thread (wait_inferior_thread_func)
    monPc, monI, monRet, packet, thread, monData, monLog,
    \* inferior process
    infId,        \* 0: none launched yet, 1: debugger_test's, 2: debugger_thread_list_test's
    infPc, infI, infExit, infPipeOpen, regs, test_data, extraThreads,
    inf_done_tests,  \* the inferior's copy of the global done_tests
    \* kernel objects
    toInf, toDrv, eportQ,
    \* history
    ctl,          \* control messages as the running test case sent and received them
    verifyLog,    \* what each finished test_prep_and_segv returned
    writeLog,     \* per test_memory_ops: the bytes written, how many, and where
    readLog,      \* per test_memory_ops: the local array after the read, how many bytes, from where
    closedSeen,   \* who observed the control channel closed by its peer
    spurious      \* notifications of an unexpected kind injected so far

drvVars == <<drvPc, drvExit, done_tests, all_ok, results, msg, pipeOpen, eportOpen, numThreads, tlIdx>>
wdVars == <<wdPc, wdI>>
monVars == <<monPc, monI, monRet, packet, thread, monData, monLog>>
infVars == <<infId, infPc, infI, infExit, infPipeOpen, regs, test_data, extraThreads,
             inf_done_tests>>
chanVars == <<toInf, toDrv, eportQ>>
histVars == <<ctl, verifyLog, writeLog, readLog, closedSeen, spurious>>
vars == <<drvVars, wdVars, monVars, infVars, chanVars, histVars>>

\* ------------------------------------------------------------ helpers
Seed == [i \in Idx |-> i]
Pattern == [i \in Idx |-> i + TEST_DATA_ADJUST]
NoRegs == [r8 |-> 0, r9 |-> 0, sp |-> 0]
Zeros == [i \in Idx |-> 0]

DrvAlive == drvExit = <<>>
InfAlive == infPc \notin {"none", "exited"}

Init ==
    /\ drvPc = "main" /\ drvExit = <<>> /\ done_tests = FALSE /\ all_ok = TRUE
    /\ results = [t \in 1..2 |-> "none"] /\ msg = "" /\ pipeOpen = FALSE
    /\ eportOpen = FALSE /\ numThreads = 0 /\ tlIdx = 0
    /\ wdPc = "none" /\ wdI = 0
    /\ monPc = "none" /\ monI = 0 /\ monRet = "none" /\ packet = "none"
    /\ thread = FALSE /\ monData = Zeros /\ monLog = <<>>
    /\ infId = 0 /\ infPc = "none" /\ infI = 0 /\ infExit = <<>>
    /\ infPipeOpen = FALSE /\ regs = NoRegs /\ test_data = Seed /\ extraThreads = 0
    /\ inf_done_tests = FALSE
    /\ toInf = <<>> /\ toDrv = <<>> /\ eportQ = <<>>
    /\ ctl = <<>> /\ verifyLog = <<>> /\ writeLog = <<>> /\ readLog = <<>>
    /\ closedSeen = {} /\ spurious = 0

\* ------------------------------------------------------------ driver: main and the test cases
\* exit() or return from main: the process ends with all its threads where they
\* are, and the kernel closes its handles.
DriverExit(code) ==
    /\ drvExit' = <<code>>
    /\ UNCHANGED drvPc
    /\ pipeOpen' = FALSE
    /\ eportOpen' = FALSE

\* A test case returns to RUN_TEST; the next case (or the end of the suite) follows.
TestReturn(t, ok) ==
    /\ results' = [results EXCEPT ![t] = IF ok THEN "pass" ELSE "fail"]
    /\ drvPc' = IF t = 1 THEN "tl_setup" ELSE "set_done"

\* Variant: the failure is not recorded.
ExpectEqIgnored(ok, a, b) == ok

\* EXPECT_EQ: records a failure in all_ok and goes on.
ExpectEq(ok, a, b) == ok /\ a = b

\* main, lines 440-443: start the watchdog, then run the suite.
MainStart ==
    /\ DrvAlive /\ drvPc = "main"
    /\ wdPc' = "run"
    /\ drvPc' = "dt_setup"
    /\ UNCHANGED <<drvExit, done_tests, all_ok, results, msg, pipeOpen, eportOpen,
                   numThreads, tlIdx, wdI, monVars, infVars, chanVars, histVars>>

\* BEGIN_TEST and a successful setup_inferior: a fresh inferior runs msg_loop, with a
\* control channel and an exception port bound to it.
Setup(t) ==
    /\ DrvAlive /\ drvPc = (IF t = 1 THEN "dt_setup" ELSE "tl_setup")
    /\ all_ok' = TRUE
    /\ pipeOpen' = TRUE
    /\ eportOpen' = (IF t = 1 THEN TRUE ELSE eportOpen)
    /\ infId' = t /\ infPc' = "recv" /\ infI' = 0 /\ infExit' = <<>>
    /\ infPipeOpen' = TRUE /\ extraThreads' = 0 /\ inf_done_tests' = FALSE
    /\ regs' = [r8 |-> StackBase, r9 |-> 0, sp |-> StackBase]
    /\ test_data' = Zeros
    /\ toInf' = <<>> /\ toDrv' = <<>>
    /\ ctl' = <<>> /\ verifyLog' = <<>>
    /\ msg' = "" /\ numThreads' = 0 /\ tlIdx' = 0
    /\ IF monPc \in {"none", "exited"}
       THEN /\ monPc' = "none" /\ monI' = 0 /\ monRet' = "none"
            /\ monLog' = <<>> /\ readLog' = <<>> /\ writeLog' = <<>>
            /\ monData' = Zeros /\ packet' = "none"
       ELSE UNCHANGED <<monPc, monI, monRet, monLog, readLog, writeLog, monData, packet>>
    /\ drvPc' = (IF t = 1 THEN "dt_create" ELSE "tl_send")
    /\ UNCHANGED <<drvExit, done_tests, results, wdVars, thread, eportQ, closedSeen,
                   spurious>>

DtSetup == Setup(1)
TlSetup == Setup(2)

\* return false, lines 171 and 201.
SetupFailedReturn == FALSE

\* setup_inferior fails: the case returns false at once (lines 170-171, 200-201).
SetupFail(t) ==
    /\ DrvAlive /\ drvPc = (IF t = 1 THEN "dt_setup" ELSE "tl_setup")
    /\ all_ok' = TRUE
    /\ ctl' = <<>>
    /\ TestReturn(t, SetupFailedReturn)
    /\ UNCHANGED <<drvExit, done_tests, msg, pipeOpen, eportOpen, numThreads, tlIdx,
                   wdVars, monVars, infVars, chanVars, verifyLog, writeLog, readLog,
                   closedSeen, spurious>>

\* lines 173-175: the monitor thread is created on wait_inf_args.
DtCreateThread ==
    /\ DrvAlive /\ drvPc = "dt_create"
    /\ monPc' = "start"
    /\ monI' = 0 /\ monRet' = "none" /\ packet' = "none" /\ monLog' = <<>>
    /\ drvPc' = "dt_send"
    /\ UNCHANGED <<drvExit, done_tests, all_ok, results, msg, pipeOpen, eportOpen,
                   numThreads, tlIdx, wdVars, thread, monData, infVars, chanVars, histVars>>

\* send_msg(pipe, request), lines 178 and 204.
SendRequest(t) ==
    LET req == IF t = 1 THEN MSG_CRASH ELSE MSG_START_EXTRA_THREADS IN
    /\ DrvAlive /\ drvPc = (IF t = 1 THEN "dt_send" ELSE "tl_send")
    /\ toInf' = Append(toInf, req)
    /\ ctl' = Append(ctl, <<"send", req>>)
    /\ drvPc' = (IF t = 1 THEN "dt_recv" ELSE "tl_recv")
    /\ UNCHANGED <<drvExit, done_tests, all_ok, results, msg, pipeOpen, eportOpen,
                   numThreads, tlIdx, wdVars, monVars, infVars, toDrv, eportQ,
                   verifyLog, writeLog, readLog, closedSeen, spurious>>

DtSendCrash == SendRequest(1)
TlSendStart == SendRequest(2)

\* Variant: a failed recv_msg does not fail the case.
RecvFailedReturnTrue == TRUE

\* What the case returns when recv_msg fails, lines 180 and 206.
RecvFailedReturn == FALSE

\* recv_msg and the EXPECT_EQ on the kind, lines 179-181 and 205-207: a message is
\* taken when one is readable; a channel closed by the peer makes recv_msg fail and
\* the case return false.
RecvReply(t) ==
    LET want == IF t = 1 THEN MSG_RECOVERED_FROM_CRASH ELSE MSG_EXTRA_THREADS_STARTED IN
    /\ DrvAlive /\ drvPc = (IF t = 1 THEN "dt_recv" ELSE "tl_recv")
    /\ \/ /\ toDrv # <<>>
          /\ msg' = Head(toDrv)
          /\ toDrv' = Tail(toDrv)
          /\ ctl' = Append(ctl, <<"recv", Head(toDrv)>>)
          /\ all_ok' = ExpectEq(all_ok, Head(toDrv), want)
          /\ drvPc' = (IF t = 1 THEN "dt_shutdown" ELSE "tl_info")
          /\ UNCHANGED <<results, closedSeen>>
       \/ /\ toDrv = <<>> /\ ~infPipeOpen
          /\ closedSeen' = closedSeen \cup {<<"driver", t>>}
          /\ TestReturn(t, RecvFailedReturn)
          /\ UNCHANGED <<msg, toDrv, ctl, all_ok>>
    /\ UNCHANGED <<drvExit, done_tests, pipeOpen, eportOpen, numThreads, tlIdx, wdVars,
                   monVars, infVars, toInf, eportQ, verifyLog, writeLog, readLog, spurious>>

DtRecv == RecvReply(1)
TlRecv == RecvReply(2)

\* shutdown_inferior, first half: send DONE and close the control channel.
ShutdownSend(t) ==
    /\ DrvAlive /\ drvPc = (IF t = 1 THEN "dt_shutdown" ELSE "tl_shutdown")
    /\ toInf' = Append(toInf, MSG_DONE)
    /\ ctl' = Append(ctl, <<"send", MSG_DONE>>)
    /\ pipeOpen' = FALSE
    /\ drvPc' = (IF t = 1 THEN "dt_wait_inf" ELSE "tl_wait_inf")
    /\ UNCHANGED <<drvExit, done_tests, all_ok, results, msg, eportOpen, numThreads, tlIdx,
                   wdVars, monVars, infVars, toDrv, eportQ, verifyLog, writeLog, readLog,
                   closedSeen, spurious>>

\* shutdown_inferior, second half: wait for the inferior to terminate, check its
\* return code, close the exception port and the process handle.  debugger_test goes
\* on to join the monitor; debugger_thread_list_test ends (END_TEST).
ShutdownWait(t) ==
    /\ DrvAlive /\ drvPc = (IF t = 1 THEN "dt_wait_inf" ELSE "tl_wait_inf")
    /\ infPc = "exited"
    /\ LET ok == ExpectEq(all_ok, infExit, <<EXIT_INFERIOR_DONE>>) IN
       /\ all_ok' = ok
       /\ IF t = 1
          THEN /\ eportOpen' = FALSE
               /\ eportQ' = <<>>
               /\ drvPc' = "dt_join"
               /\ UNCHANGED results
          ELSE /\ UNCHANGED <<eportOpen, eportQ>>
               /\ TestReturn(t, ok)
    /\ UNCHANGED <<drvExit, done_tests, msg, pipeOpen, numThreads, tlIdx, wdVars, monVars,
                   infVars, toInf, toDrv, histVars>>

DtShutdownSend == ShutdownSend(1)
DtShutdownWait == ShutdownWait(1)
TlShutdownSend == ShutdownSend(2)
TlShutdownWait == ShutdownWait(2)

\* lines 186-191: join the monitor thread, END_TEST.
DtJoin ==
    /\ DrvAlive /\ drvPc = "dt_join"
    /\ monPc = "exited"
    /\ TestReturn(1, all_ok)
    /\ UNCHANGED <<drvExit, done_tests, all_ok, msg, pipeOpen, eportOpen, numThreads, tlIdx,
                   wdVars, monVars, infVars, chanVars, histVars>>

\* Threads the kernel lists for the inferior: its main thread and the extra ones.
ThreadCount == IF InfAlive THEN 1 + extraThreads ELSE 0

\* lines 209-219: mx_object_get_info(MX_INFO_PROCESS_THREADS); ASSERT_GE on the size.
TlGetInfo ==
    /\ DrvAlive /\ drvPc = "tl_info"
    /\ numThreads' = ThreadCount
    /\ tlIdx' = 0
    /\ ctl' = Append(ctl, <<"enumerate", "threads">>)
    /\ IF ThreadCount >= 1 + NUM_EXTRA_THREADS
       THEN /\ drvPc' = "tl_verify"
            /\ UNCHANGED <<all_ok, results>>
       ELSE /\ all_ok' = FALSE
            /\ TestReturn(2, FALSE)
    /\ UNCHANGED <<drvExit, done_tests, msg, pipeOpen, eportOpen, wdVars, monVars,
                   infVars, chanVars, verifyLog, writeLog, readLog, closedSeen, spurious>>

\* lines 222-233: one entry of the list is resolved and checked to be a thread.
TlVerifyEntry ==
    /\ DrvAlive /\ drvPc = "tl_verify"
    /\ IF tlIdx < numThreads
       THEN /\ tlIdx' = tlIdx + 1
            /\ all_ok' = ExpectEq(all_ok, InfAlive, TRUE)
            /\ UNCHANGED drvPc
       ELSE /\ drvPc' = "tl_shutdown"
            /\ UNCHANGED <<tlIdx, all_ok>>
    /\ UNCHANGED <<drvExit, done_tests, results, msg, pipeOpen, eportOpen, numThreads,
                   wdVars, monVars, infVars, chanVars, histVars>>

\* Variant: the flag is left as it is.
SetDoneNot(d) == FALSE

\* done_tests = true, lines 359 and 445.
SetDone(d) == TRUE

\* line 445.
MainSetDone ==
    /\ DrvAlive /\ drvPc = "set_done"
    /\ done_tests' = SetDone(done_tests)
    /\ drvPc' = "join_wd"
    /\ UNCHANGED <<drvExit, all_ok, results, msg, pipeOpen, eportOpen, numThreads, tlIdx,
                   wdVars, monVars, infVars, chanVars, histVars>>

\* Variant: the suite reports success whatever the cases returned.
SuccessAlways == TRUE

\* unittest_run_all_tests, line 443: true iff every case passed.
Success == \A t \in 1..2 : results[t] = "pass"

\* lines 446-447: join the watchdog, return 0 or -1.
MainReturn ==
    /\ DrvAlive /\ drvPc = "join_wd"
    /\ wdPc = "exited"
    /\ DriverExit(IF Success THEN EXIT_SUCCESS ELSE EXIT_TEST_FAILED)
    /\ UNCHANGED <<done_tests, all_ok, results, msg, numThreads, tlIdx, wdVars, monVars,
                   infVars, chanVars, histVars>>

\* ------------------------------------------------------------ watchdog thread
\* Variant: the loop runs one tick short.
WatchdogExpiredEarly(i) == ~(i < WATCHDOG_DURATION_TICKS - 1)

\* for (int i = 0; i < WATCHDOG_DURATION_TICKS; ++i), line 154.
WatchdogExpired(i) == ~(i < WATCHDOG_DURATION_TICKS)

\* Variant: the poll never finds the flag set.
WatchdogSeesDoneNever(d) == FALSE

\* if (done_tests), line 156.
WatchdogSeesDone(d) == d

\* Variant: past the loop only the watchdog thread ends.
WatchdogAfterPollThreadExit(i) == IF WatchdogExpired(i) THEN "exited" ELSE "run"

\* Where the watchdog goes after a poll that found done_tests false: round the loop,
\* or past it to exit(5), lines 154 and 159-161.
WatchdogAfterPoll(i) == IF WatchdogExpired(i) THEN "fire" ELSE "run"

\* lines 154-158: one tick: sleep, then poll done_tests.
WatchdogTick ==
    /\ DrvAlive /\ wdPc = "run"
    /\ IF WatchdogSeesDone(done_tests)
       THEN /\ wdPc' = "exited"
            /\ UNCHANGED wdI
       ELSE /\ wdI' = wdI + 1
            /\ wdPc' = WatchdogAfterPoll(wdI + 1)
    /\ UNCHANGED <<drvVars, monVars, infVars, chanVars, histVars>>

\* lines 159-161: exit(5) ends the whole process.
WatchdogFire ==
    /\ DrvAlive /\ wdPc = "fire"
    /\ DriverExit(EXIT_WATCHDOG)
    /\ UNCHANGED <<done_tests, all_ok, results, msg, numThreads, tlIdx, wdVars, monVars,
                   infVars, chanVars, histVars>>
\* ------------------------------------------------------------ kernel: memory and exceptions
\* The inferior's test_data[] occupies TEST_MEMORY_SIZE bytes from the stack pointer
\* on; nothing else of its address space is mapped in this model (address 0 is not).
Mapped(a) == a \in StackBase .. (StackBase + TEST_MEMORY_SIZE - 1)

\* Bytes a transfer of TEST_MEMORY_SIZE bytes starting at addr can move.
Transferable(addr) == Cardinality({i \in Idx : \A j \in 0..i : Mapped(addr + j)})

\* The byte of the inferior's memory at address a.
MemByte(a) == IF Mapped(a) THEN test_data[a - StackBase] ELSE 0

\* ------------------------------------------------------------ exception monitor
\* Variant: the loop runs one iteration short.
MonLoopCondShort(i) == i < NUM_SEGV_TRIES - 1

\* for (i = 0; i < NUM_SEGV_TRIES; ++i), line 102.
MonLoopCond(i) == i < NUM_SEGV_TRIES

\* A failed ASSERT_* (or the final return) of wait_inferior_thread_worker; the
\* thread function then calls mx_thread_exit (lines 144-150).
MonReturn(r) ==
    /\ monRet' = (IF r THEN "true" ELSE "false")
    /\ monPc' = "exited"
    /\ all_ok' = (all_ok /\ r)

\* lines 97-102: take the arguments, enter the loop.
MonStart ==
    /\ DrvAlive /\ monPc = "start"
    /\ monI' = 0
    /\ monPc' = IF MonLoopCond(0) THEN "wait" ELSE "check"
    /\ UNCHANGED <<drvVars, wdVars, monRet, packet, thread, monData, monLog, infVars,
                   chanVars, histVars>>

\* packet.report.header.type == MX_EXCP_GONE, line 109.
IsGone(p) == p = "gone"

\* Variant: every notification that is not process-gone is taken for a fault.
IsArchAnyOther(p) == p # "gone"

\* MX_EXCP_IS_ARCH(packet.report.header.type), line 112.
IsArch(p) == p = "arch"

\* lines 106-116: mx_port_wait returns a packet, which is classified.
MonWait ==
    /\ DrvAlive /\ monPc = "wait"
    /\ eportOpen /\ eportQ # <<>>
    /\ LET p == Head(eportQ) IN
       /\ packet' = p
       /\ eportQ' = Tail(eportQ)
       /\ monLog' = Append(monLog, <<"notify", p>>)
       /\ CASE IsGone(p) -> /\ monPc' = "check"
                            /\ UNCHANGED <<monRet, all_ok>>
            [] IsArch(p) -> /\ monPc' = "resolve"
                            /\ UNCHANGED <<monRet, all_ok>>
            [] OTHER -> MonReturn(FALSE)
    /\ UNCHANGED <<drvPc, drvExit, done_tests, results, msg, pipeOpen, eportOpen,
                   numThreads, tlIdx, wdVars, monI, thread, monData, infVars, toInf,
                   toDrv, histVars>>

\* line 106: mx_port_wait fails because the port was closed under the monitor.
MonWaitFail ==
    /\ DrvAlive /\ monPc = "wait"
    /\ ~eportOpen
    /\ monLog' = Append(monLog, <<"wait_failed">>)
    /\ MonReturn(FALSE)
    /\ UNCHANGED <<drvPc, drvExit, done_tests, results, msg, pipeOpen, eportOpen,
                   numThreads, tlIdx, wdVars, monI, packet, thread, monData, infVars,
                   chanVars, histVars>>

\* lines 118-123: the thread identifier resolves to a handle; dump_inferior_regs
\* reads the register file.
MonResolve ==
    /\ DrvAlive /\ monPc = "resolve"
    /\ thread' = TRUE
    /\ monLog' = Append(Append(monLog, <<"resolved">>), <<"regs_read">>)
    /\ monPc' = "memops"
    /\ UNCHANGED <<drvVars, wdVars, monI, monRet, packet, monData, infVars, chanVars,
                   histVars>>

\* lines 120-121: mx_object_get_child fails.
MonResolveFail ==
    /\ DrvAlive /\ monPc = "resolve"
    /\ monLog' = Append(monLog, <<"resolve_failed">>)
    /\ MonReturn(FALSE)
    /\ UNCHANGED <<drvPc, drvExit, done_tests, results, msg, pipeOpen, eportOpen,
                   numThreads, tlIdx, wdVars, monI, packet, thread, monData, infVars,
                   chanVars, histVars>>

\* The register test_memory_ops takes the buffer address from (lines 52, 55).
TestDataAddr(r) == r.r9

\* test_data[i] += TEST_DATA_ADJUST on a uint8_t, line 66.
Adjust(b) == (b + TEST_DATA_ADJUST) % ByteMod

\* Variant: a failed check in test_memory_ops ends the monitor.
AfterMemOpsAssert(ok) == IF ok THEN "fix" ELSE "exited"

\* Where the monitor goes after test_memory_ops, whose checks are EXPECT_EQ and
\* which returns nothing: on to fix_inferior_segv, lines 126-130.
AfterMemOps(ok) == "fix"

\* test_memory_ops, lines 45-72, with nr bytes read and nw bytes written by the
\* kernel and g in the bytes of the local array that the read did not fill.
TestMemoryOps(nr, nw, g) ==
    LET addr == TestDataAddr(regs)
        got == [i \in Idx |-> IF i < nr THEN MemByte(addr + i) ELSE g]
        adj == [i \in Idx |-> Adjust(got[i])]
        mem == [i \in Idx |->
                  IF \E k \in 0 .. (nw - 1) : addr + k = StackBase + i
                  THEN adj[StackBase + i - addr] ELSE test_data[i]]
    IN
    /\ DrvAlive /\ monPc = "memops"
    /\ nr <= Transferable(addr) /\ nw <= Transferable(addr)
    /\ monData' = adj
    /\ test_data' = mem
    /\ all_ok' = ExpectEq(ExpectEq(ExpectEq(all_ok, nr, TEST_MEMORY_SIZE), got, Seed),
                          nw, TEST_MEMORY_SIZE)
    /\ readLog' = Append(readLog, [n |-> nr, bytes |-> got, addr |-> addr])
    /\ writeLog' = Append(writeLog, [n |-> nw, bytes |-> adj, addr |-> addr])
    /\ monLog' = Append(Append(monLog, <<"mem_read">>), <<"mem_write">>)
    /\ monPc' = AfterMemOps(nr = TEST_MEMORY_SIZE /\ got = Seed /\ nw = TEST_MEMORY_SIZE)
    /\ UNCHANGED <<drvPc, drvExit, done_tests, results, msg, pipeOpen, eportOpen,
                   numThreads, tlIdx, wdVars, monI, monRet, packet, thread, infId, infPc,
                   infI, infExit, infPipeOpen, inf_done_tests, regs, extraThreads, chanVars, ctl,
                   verifyLog, closedSeen, spurious>>

\* The kernel transfers everything that is mapped.
MonMemOps ==
    LET n == Transferable(TestDataAddr(regs)) IN
    \E g \in GarbageBytes :
        /\ n = TEST_MEMORY_SIZE => g = 0
        /\ TestMemoryOps(n, n, g)

\* A short read or a short write.
MonMemOpsShort ==
    \E nr, nw \in ShortLens \cup {TEST_MEMORY_SIZE}, g \in GarbageBytes :
        /\ nr < TEST_MEMORY_SIZE \/ nw < TEST_MEMORY_SIZE
        /\ nr = TEST_MEMORY_SIZE => g = 0
        /\ TestMemoryOps(nr, nw, g)

\* Variant: the fixup leaves r8 at the unmapped address 0.
FixedR8Zero(r) == 0

\* The value fix_inferior_segv puts into r8 (lines 81-82, 88-89).
FixedR8(r) == r.sp

\* fix_inferior_segv, lines 74-91.
MonFix ==
    /\ DrvAlive /\ monPc = "fix"
    /\ regs' = [regs EXCEPT !.r8 = FixedR8(regs)]
    /\ monLog' = Append(monLog, <<"fix">>)
    /\ monPc' = "resume"
    /\ UNCHANGED <<drvVars, wdVars, monI, monRet, packet, thread, monData, infId, infPc,
                   infI, infExit, infPipeOpen, inf_done_tests, test_data, extraThreads, chanVars, histVars>>

\* line 134: mx_task_resume(thread, MX_RESUME_EXCEPTION) succeeds; the faulted
\* thread runs again from the faulting instruction.
MonResume ==
    /\ DrvAlive /\ monPc = "resume"
    /\ infPc' = (IF infPc = "faulted" THEN "segv" ELSE infPc)
    /\ monLog' = Append(monLog, <<"resume">>)
    /\ monPc' = "close_ok"
    /\ UNCHANGED <<drvVars, wdVars, monI, monRet, packet, thread, monData, infId, infI,
                   infExit, infPipeOpen, inf_done_tests, regs, test_data, extraThreads, chanVars, histVars>>

\* line 134: mx_task_resume fails; the thread stays suspended.
MonResumeFail ==
    /\ DrvAlive /\ monPc = "resume"
    /\ monLog' = Append(monLog, <<"resume_failed">>)
    /\ monPc' = "close_err"
    /\ UNCHANGED <<drvVars, wdVars, monI, monRet, packet, thread, monData, infVars,
                   chanVars, histVars>>

\* Variant: the ASSERT on the resume status comes before the close.
ThreadHeldIfResumeFailed(pc) == pc = "close_err"

\* Whether the handle is still held after line 135: tu_handle_close comes before
\* the ASSERT_EQ of line 136, so on both paths it is not.
ThreadHeldAfterClose(pc) == FALSE

\* lines 135-137: close the thread handle, ASSERT on the resume status, ++i and
\* the loop test.
MonClose ==
    /\ DrvAlive /\ monPc \in {"close_ok", "close_err"}
    /\ thread' = ThreadHeldAfterClose(monPc)
    /\ monLog' = Append(monLog, <<"close">>)
    /\ IF monPc = "close_ok"
       THEN /\ monI' = monI + 1
            /\ monPc' = IF MonLoopCond(monI + 1) THEN "wait" ELSE "check"
            /\ UNCHANGED <<monRet, all_ok>>
       ELSE /\ MonReturn(FALSE)
            /\ UNCHANGED monI
    /\ UNCHANGED <<drvPc, drvExit, done_tests, results, msg, pipeOpen, eportOpen,
                   numThreads, tlIdx, wdVars, packet, monData, infVars, chanVars, histVars>>

\* Variant: the count is not looked at.
CountCheckSkipped(i) == TRUE

\* ASSERT_EQ(i, NUM_SEGV_TRIES, "segv tests terminated prematurely"), line 139.
CountCheck(i) == i = NUM_SEGV_TRIES

\* lines 139-141: ASSERT_EQ(i, NUM_SEGV_TRIES), return true.
MonCheck ==
    /\ DrvAlive /\ monPc = "check"
    /\ MonReturn(CountCheck(monI))
    /\ UNCHANGED <<drvPc, drvExit, done_tests, results, msg, pipeOpen, eportOpen,
                   numThreads, tlIdx, wdVars, monI, packet, thread, monData, monLog,
                   infVars, chanVars, histVars>>
\* ------------------------------------------------------------ inferior process
\* exit(code) of the inferior: its end of the control channel closes and the
\* exception port bound to the process is told that the process is gone.
InfExitWith(code) ==
    /\ infPc' = "exited"
    /\ infExit' = <<code>>
    /\ infPipeOpen' = FALSE
    /\ eportQ' = IF infId = 1 /\ eportOpen THEN Append(eportQ, "gone") ELSE eportQ

\* send_msg from the inferior; nobody reads what is sent once the driver is gone.
InfSend(m) == toDrv' = IF pipeOpen THEN Append(toDrv, m) ELSE toDrv

\* Variant: a kind without a case label ends the loop as DONE does.
DefaultCaseLeaves(pc) == "done"

\* default: of the switch, lines 342-344: print, break; the loop goes round.
DefaultCase(pc) == pc

\* msg_loop, lines 314-346: receive one message and dispatch on its kind.  A closed
\* channel makes recv_msg fail: ASSERT_TRUE returns false and test_inferior calls
\* exit(20) (lines 317, 356-357).
InfRecv ==
    /\ infPc = "recv" /\ ~inf_done_tests
    /\ \/ /\ toInf # <<>>
          /\ toInf' = Tail(toInf)
          /\ LET m == Head(toInf) IN
             CASE m = MSG_DONE ->
                    /\ infPc' = "done"
                    /\ UNCHANGED <<infI, toDrv>>
               [] m = MSG_PING ->
                    /\ InfSend(MSG_PONG)
                    /\ UNCHANGED <<infPc, infI>>
               [] m = MSG_CRASH ->
                    /\ infPc' = "prep" /\ infI' = 0
                    /\ UNCHANGED toDrv
               [] m = MSG_START_EXTRA_THREADS ->
                    /\ infPc' = "spawn" /\ infI' = 0
                    /\ UNCHANGED toDrv
               [] OTHER ->
                    /\ infPc' = DefaultCase(infPc)
                    /\ UNCHANGED <<infI, toDrv>>
          /\ UNCHANGED <<infExit, infPipeOpen, eportQ, closedSeen>>
       \/ /\ toInf = <<>> /\ ~pipeOpen
          /\ closedSeen' = closedSeen \cup {<<"inferior", infId>>}
          /\ InfExitWith(EXIT_MSG_LOOP_FAILED)
          /\ UNCHANGED <<infI, toInf, toDrv>>
    /\ UNCHANGED <<drvVars, wdVars, monVars, infId, regs, test_data, extraThreads,
                   inf_done_tests, ctl, verifyLog, writeLog, readLog, spurious>>

\* Variant: msg_loop reports failure after DONE.
MsgLoopReturnFalse == FALSE

\* END_HELPER of msg_loop, line 348, reached with my_done_tests set: no ASSERT
\* failed, the helper returns true.
MsgLoopReturn == TRUE

\* test_inferior, lines 356-361, after msg_loop returned from its loop.
InfDone ==
    /\ infPc = "done"
    /\ IF MsgLoopReturn
       THEN /\ inf_done_tests' = SetDone(inf_done_tests)
            /\ InfExitWith(EXIT_INFERIOR_DONE)
       ELSE /\ UNCHANGED inf_done_tests
            /\ InfExitWith(EXIT_MSG_LOOP_FAILED)
    /\ UNCHANGED <<drvVars, wdVars, monVars, infId, infI, regs, test_data, extraThreads,
                   toInf, toDrv, histVars>>

\* Variant: the array keeps what the previous call left in it.
SeedBufferKept(old) == old

\* The local array as test_prep_and_segv fills it, lines 245-247.
SeedBuffer(old) == Seed

\* test_prep_and_segv up to the faulting instruction, lines 245-263: seed the
\* buffer, r9 := &test_data[0], r8 := 0.
InfPrep ==
    /\ infPc = "prep"
    /\ test_data' = SeedBuffer(test_data)
    /\ regs' = [regs EXCEPT !.r9 = StackBase, !.r8 = 0]
    /\ infPc' = "segv"
    /\ UNCHANGED <<drvVars, wdVars, monVars, infId, infI, infExit, infPipeOpen, inf_done_tests,
                   extraThreads, chanVars, histVars>>

\* .Lsegv_here: the load through r8, line 261.  An unmapped address faults: the
\* kernel suspends the thread and queues an architectural exception packet.
InfLoad ==
    /\ infPc = "segv"
    /\ IF Mapped(regs.r8)
       THEN /\ infPc' = "verify"
            /\ UNCHANGED eportQ
       ELSE /\ infPc' = "faulted"
            /\ eportQ' = Append(eportQ, "arch")
    /\ UNCHANGED <<drvVars, wdVars, monVars, infId, infI, infExit, infPipeOpen, inf_done_tests, regs,
                   test_data, extraThreads, toInf, toDrv, histVars>>

\* Variant: the resumed thread expects the seed.
ExpectedOnResumeSeed(i) == i

\* What the resumed thread expects in byte i, line 286.
ExpectedOnResume(i) == i + TEST_DATA_ADJUST

\* Variant: the inferior faults once per CRASH.
CrashLoopCondOnce(i) == i < 1

\* for (int i = 0; i < NUM_SEGV_TRIES; ++i), line 327.
CrashLoopCond(i) == i < NUM_SEGV_TRIES

\* Variant: msg_loop does not look at what test_prep_and_segv returned.
VerifyFailedIgnored(ok) == FALSE

\* if (!test_prep_and_segv()), line 328.
VerifyFailed(ok) == ~ok

\* lines 285-296 and the loop of msg_loop, lines 327-330: compare every byte;
\* a mismatch makes test_prep_and_segv return false and msg_loop call exit(21).
InfVerify ==
    LET ok == \A i \in Idx : test_data[i] = ExpectedOnResume(i) IN
    /\ infPc = "verify"
    /\ verifyLog' = Append(verifyLog, ok)
    /\ IF ~VerifyFailed(ok)
       THEN /\ infI' = infI + 1
            /\ infPc' = IF CrashLoopCond(infI + 1) THEN "prep" ELSE "reply_crash"
            /\ UNCHANGED <<infExit, infPipeOpen, eportQ>>
       ELSE /\ InfExitWith(EXIT_BAD_DATA)
            /\ UNCHANGED infI
    /\ UNCHANGED <<drvVars, wdVars, monVars, infId, regs, test_data, extraThreads,
                   inf_done_tests, toInf, toDrv, ctl, writeLog, readLog, closedSeen, spurious>>

\* line 331.
InfSendRecovered ==
    /\ infPc = "reply_crash"
    /\ InfSend(MSG_RECOVERED_FROM_CRASH)
    /\ infPc' = "recv"
    /\ UNCHANGED <<drvVars, wdVars, monVars, infId, infI, infExit, infPipeOpen, inf_done_tests, regs,
                   test_data, extraThreads, toInf, eportQ, histVars>>

\* Variant: the loop creates one thread fewer.
ExtraLoopCondShort(i) == i < NUM_EXTRA_THREADS - 1

\* for (int i = 0; i < NUM_EXTRA_THREADS; ++i), line 334.
ExtraLoopCond(i) == i < NUM_EXTRA_THREADS

\* lines 334-339: one extra thread is created; extra_thread_func never returns.
InfCreateExtra ==
    /\ infPc = "spawn"
    /\ extraThreads' = extraThreads + 1
    /\ infI' = infI + 1
    /\ infPc' = IF ExtraLoopCond(infI + 1) THEN "spawn" ELSE "reply_threads"
    /\ UNCHANGED <<drvVars, wdVars, monVars, infId, infExit, infPipeOpen, inf_done_tests, regs,
                   test_data, chanVars, histVars>>

\* line 340.
InfSendStarted ==
    /\ infPc = "reply_threads"
    /\ InfSend(MSG_EXTRA_THREADS_STARTED)
    /\ infPc' = "recv"
    /\ UNCHANGED <<drvVars, wdVars, monVars, infId, infI, infExit, infPipeOpen, inf_done_tests, regs,
                   test_data, extraThreads, toInf, eportQ, histVars>>

\* ------------------------------------------------------------ failures of the environment
\* The exception port delivers a notification that is neither architectural nor
\* process-gone.
KernelOtherPacket ==
    /\ DrvAlive /\ eportOpen /\ infId = 1 /\ InfAlive
    /\ monPc \in {"start", "wait"}
    /\ spurious < MaxSpurious
    /\ spurious' = spurious + 1
    /\ eportQ' = Append(eportQ, "other")
    /\ UNCHANGED <<drvVars, wdVars, monVars, infVars, toInf, toDrv, ctl, verifyLog,
                   writeLog, readLog, closedSeen>>

\* A peer that does not follow the protocol: it answers a request with a reply
\* of another kind, without doing the work.
WrongReplies(m) ==
    {MSG_PONG, MSG_RECOVERED_FROM_CRASH, MSG_EXTRA_THREADS_STARTED}
        \ {IF m = MSG_CRASH THEN MSG_RECOVERED_FROM_CRASH ELSE MSG_EXTRA_THREADS_STARTED}

PeerWrongReply ==
    /\ infPc = "recv" /\ pipeOpen
    /\ toInf # <<>> /\ Head(toInf) \in {MSG_CRASH, MSG_START_EXTRA_THREADS}
    /\ toInf' = Tail(toInf)
    /\ \E w \in WrongReplies(Head(toInf)) : toDrv' = Append(toDrv, w)
    /\ UNCHANGED <<drvVars, wdVars, monVars, infVars, eportQ, histVars>>

\* The holder of the driver's end of the control channel sends a message of a
\* kind msg_loop does not know.
SendUnknown ==
    /\ DrvAlive /\ pipeOpen
    /\ Cardinality({k \in 1 .. Len(ctl) : ctl[k][1] = "send" /\ ctl[k][2] \in UnknownKinds})
          < MaxUnknown
    /\ \E m \in UnknownKinds :
          /\ toInf' = Append(toInf, m)
          /\ ctl' = Append(ctl, <<"send", m>>)
    /\ UNCHANGED <<drvVars, wdVars, monVars, infVars, toDrv, eportQ, verifyLog, writeLog,
                   readLog, closedSeen, spurious>>

\* ------------------------------------------------------------ specifications
Driver ==
    \/ MainStart \/ DtSetup \/ DtCreateThread \/ DtSendCrash \/ DtRecv
    \/ DtShutdownSend \/ DtShutdownWait \/ DtJoin
    \/ TlSetup \/ TlSendStart \/ TlRecv \/ TlGetInfo \/ TlVerifyEntry
    \/ TlShutdownSend \/ TlShutdownWait
    \/ MainSetDone \/ MainReturn

Watchdog == WatchdogTick \/ WatchdogFire

Monitor ==
    \/ MonStart \/ MonWait \/ MonResolve \/ MonMemOps \/ MonFix \/ MonResume
    \/ MonClose \/ MonCheck

Inferior ==
    \/ InfRecv \/ InfDone \/ InfPrep \/ InfLoad \/ InfVerify \/ InfSendRecovered
    \/ InfCreateExtra \/ InfSendStarted

Faults ==
    \/ SetupFail(1) \/ SetupFail(2)
    \/ MonResolveFail \/ MonMemOpsShort \/ MonResumeFail
    \/ KernelOtherPacket

\* The kernel and the peer keep their contracts.
Next == Driver \/ Watchdog \/ Monitor \/ Inferior
Spec == Init /\ [][Next]_vars

\* The kernel may fail: setup, thread resolution, memory transfers, resume, and
\* the kind of a notification.
NextFaults == Next \/ Faults
SpecFaults == Init /\ [][NextFaults]_vars

\* The peer on the control channel may answer with the wrong kind.
NextPeer == Next \/ PeerWrongReply \/ MonWaitFail
SpecPeer == Init /\ [][NextPeer]_vars

\* Messages of unknown kinds arrive at the inferior.
NextUnknown == Next \/ SendUnknown
SpecUnknown == Init /\ [][NextUnknown]_vars

\* Liveness: every thread of the driver that can run is scheduled eventually.
FairSpec ==
    /\ Init /\ [][NextFaults]_vars
    /\ WF_vars(Watchdog) /\ WF_vars(Driver)
\* ------------------------------------------------------------ properties
\* How often entry e occurs in log.
Count(log, e) == Cardinality({k \in 1 .. Len(log) : log[k] = e})

\* The monitor has left its wait loop.
MonLeftLoop == monPc = "check" \/ (monPc = "exited" /\ monRet # "none")

\* Complete cycles the monitor has driven: each one a notification of an
\* architectural fault, the inspection of memory, the fixup and the resume.
CyclesDone == Count(monLog, <<"resume">>)

CrashSent == \E k \in 1 .. Len(ctl) : ctl[k] = <<"send", MSG_CRASH>>

\* C1: with a kernel that keeps its contract, the monitor of debugger_test never
\* leaves its loop early after the CRASH request: when it has left the loop it has
\* driven exactly NUM_SEGV_TRIES cycles of fault, notification, inspection, fixup
\* and resume, and it returns true only with that count.
C1_ExactCount ==
    /\ MonLeftLoop =>
          /\ monI = NUM_SEGV_TRIES
          /\ CyclesDone = NUM_SEGV_TRIES
          /\ Count(monLog, <<"notify", "arch">>) = NUM_SEGV_TRIES
          /\ Count(monLog, <<"mem_write">>) = NUM_SEGV_TRIES
          /\ Count(monLog, <<"fix">>) = NUM_SEGV_TRIES
          /\ CrashSent
    /\ monRet = "true" => CyclesDone = NUM_SEGV_TRIES

C1_Witness ==
    /\ monPc = "exited" /\ monRet = "true" /\ CyclesDone = NUM_SEGV_TRIES
    /\ CrashSent /\ drvPc = "dt_join"

\* The control exchange of a test case that ran to its end.
FullExchange(req, reply) == <<<<"send", req>>, <<"recv", reply>>, <<"send", MSG_DONE>>>>

\* RECOVERED_FROM_CRASH messages the inferior has produced so far.
RecoveredProduced ==
    Count(toDrv, MSG_RECOVERED_FROM_CRASH) + Count(ctl, <<"recv", MSG_RECOVERED_FROM_CRASH>>)

\* C2: request and response alternate on the control channel: after CRASH the
\* driver sends nothing more until it has received RECOVERED_FROM_CRASH, exactly
\* one such response is ever produced for the request, and the inferior produces it
\* only after all NUM_SEGV_TRIES faults were resumed and verified.
C2_Alternation ==
    /\ \A k \in 1 .. Len(ctl) :
          ctl[k] = <<"send", MSG_CRASH>> =>
             /\ k = 1
             /\ k + 1 <= Len(ctl) => ctl[k + 1] = <<"recv", MSG_RECOVERED_FROM_CRASH>>
             /\ \A j \in (k + 2) .. Len(ctl) : ctl[j] = <<"send", MSG_DONE>> /\ j = k + 2
    /\ infId = 1 => RecoveredProduced <= 1
    /\ infId = 1 /\ RecoveredProduced = 1 =>
          /\ verifyLog = [k \in 1 .. NUM_SEGV_TRIES |-> TRUE]
          /\ CyclesDone >= NUM_SEGV_TRIES
          /\ CrashSent

C2_Witness ==
    /\ ctl = FullExchange(MSG_CRASH, MSG_RECOVERED_FROM_CRASH)
    /\ Len(verifyLog) = NUM_SEGV_TRIES

\* test_memory_ops left i+TEST_DATA_ADJUST in every byte of the test buffer.
WrotePattern(w) ==
    /\ w.n = TEST_MEMORY_SIZE
    /\ w.addr = StackBase
    /\ w.bytes = Pattern

\* C3: what the supervisor writes into the buffer of the suspended thread is what
\* the thread reads after resume: for each fault, if test_memory_ops wrote
\* i+TEST_DATA_ADJUST to every byte i, the resumed test_prep_and_segv finds
\* exactly that in every byte and returns true.
C3_WriteVisibleAfterResume ==
    /\ \A k \in 1 .. Len(verifyLog) :
          (k <= Len(writeLog) /\ WrotePattern(writeLog[k])) => verifyLog[k] = TRUE
    /\ (infId = 1 /\ infPc = "verify" /\ Len(writeLog) = Len(verifyLog) + 1
          /\ WrotePattern(writeLog[Len(writeLog)])) => test_data = Pattern

C3_Witness ==
    /\ Len(verifyLog) = NUM_SEGV_TRIES
    /\ \A k \in 1 .. NUM_SEGV_TRIES : WrotePattern(writeLog[k]) /\ verifyLog[k]

\* C4: in every iteration of the monitor loop the read through r9 returns the
\* seeded bytes 0,1,...,TEST_MEMORY_SIZE-1, never bytes an earlier iteration
\* adjusted, and the bytes written back are i+TEST_DATA_ADJUST, each below 256.
C4_ReadSeedEveryIteration ==
    /\ Len(readLog) = Len(writeLog)
    /\ \A k \in 1 .. Len(readLog) :
          /\ readLog[k].n = TEST_MEMORY_SIZE
          /\ readLog[k].addr = regs.r9
          /\ readLog[k].bytes = Seed
          /\ writeLog[k].n = TEST_MEMORY_SIZE
          /\ \A i \in Idx : /\ writeLog[k].bytes[i] = i + TEST_DATA_ADJUST
                            /\ writeLog[k].bytes[i] < ByteMod

C4_Witness ==
    /\ Len(readLog) = NUM_SEGV_TRIES
    /\ readLog[NUM_SEGV_TRIES].bytes = Seed
    /\ writeLog[NUM_SEGV_TRIES].bytes = Pattern
\* C5: exit(5) happens only after WATCHDOG_DURATION_TICKS polls that each found
\* done_tests false, it does happen once the last of them has, and so the process
\* ends with code 5 whenever done_tests is never set.
C5_WatchdogDeadline ==
    /\ [](drvExit = <<EXIT_WATCHDOG>> => wdI = WATCHDOG_DURATION_TICKS /\ wdPc = "fire")
    /\ [](wdPc = "fire" => wdI = WATCHDOG_DURATION_TICKS)
    /\ [](wdPc = "fire" => <>(drvExit = <<EXIT_WATCHDOG>>))
    /\ ([](~done_tests) => <>(drvExit = <<EXIT_WATCHDOG>>))

C5_Witness ==
    /\ drvExit = <<EXIT_WATCHDOG>> /\ ~done_tests /\ wdI = WATCHDOG_DURATION_TICKS

\* C6 as stated: once done_tests is true the process never ends with code 5.
C6_Original == done_tests => drvExit # <<EXIT_WATCHDOG>>

\* C6, amended: a watchdog that still has a poll to make when done_tests is true
\* finds it true at that poll and ends only its own thread, and a watchdog thread
\* that ended this way never goes with exit code 5; exit(5) with done_tests true
\* happens only when all WATCHDOG_DURATION_TICKS polls had found it false before.
C6_CleanExitWhenPolled ==
    /\ [](wdPc = "exited" => done_tests /\ drvExit # <<EXIT_WATCHDOG>>)
    /\ [][(done_tests /\ wdPc = "run") =>
            (wdPc' \in {"run", "exited"} /\ wdI' = wdI /\ drvExit' # <<EXIT_WATCHDOG>>)]_vars
    /\ [](done_tests /\ drvExit = <<EXIT_WATCHDOG>> => wdI = WATCHDOG_DURATION_TICKS)

C6_Witness ==
    /\ wdPc = "exited" /\ done_tests /\ drvExit = <<EXIT_SUCCESS>>
    /\ wdI = WATCHDOG_DURATION_TICKS - 1

\* C7: under fair scheduling of the driver's threads the driver process always
\* ends: main returns once done_tests is set and the watchdog thread has ended
\* (which takes no further tick that counts), or the watchdog calls exit(5); also
\* when the test logic hangs.
C7_DriverTerminates ==
    /\ <>(drvExit # <<>>)
    /\ [](drvExit # <<>> =>
            \/ drvExit = <<EXIT_WATCHDOG>> /\ wdPc = "fire"
            \/ /\ drvExit \in {<<EXIT_SUCCESS>>, <<EXIT_TEST_FAILED>>}
               /\ done_tests /\ wdPc = "exited" /\ drvPc = "join_wd")
    /\ [](drvPc = "join_wd" /\ drvExit = <<>> => <>(wdPc \in {"exited", "fire"}))

\* The hang of the claim: the monitor gave up on a failed assertion without
\* resuming the faulted thread, the driver stayed in recv_msg, the watchdog fired.
C7_Witness ==
    /\ drvExit = <<EXIT_WATCHDOG>> /\ drvPc = "dt_recv"
    /\ monPc = "exited" /\ monRet = "false" /\ infPc = "faulted"

\* C8 as stated: a closed control channel is normal termination for the side
\* that observes it: no exit code 20 in the inferior, no failed case in the driver.
C8_Original ==
    /\ \A t \in 1 .. 2 : <<"driver", t>> \in closedSeen => results[t] # "fail"
    /\ <<"inferior", infId>> \in closedSeen => infExit # <<EXIT_MSG_LOOP_FAILED>>

\* C8, amended: a control channel found closed by the peer is a failure for the
\* side that observes it: the inferior's msg_loop fails and the process exits with
\* code 20; the driver's test case returns false and is reported as failed.
C8_ClosedIsFailure ==
    /\ \A t \in 1 .. 2 : <<"driver", t>> \in closedSeen => results[t] = "fail"
    /\ <<"inferior", infId>> \in closedSeen => infExit = <<EXIT_MSG_LOOP_FAILED>>

C8_Witness ==
    /\ <<"driver", 1>> \in closedSeen /\ results[1] = "fail"
    /\ <<"inferior", 2>> \in closedSeen /\ infExit = <<EXIT_MSG_LOOP_FAILED>>

\* C9: a notification of an unexpected kind, or a thread identifier that does not
\* resolve, ends wait_inferior_thread_worker at once with failure: nothing follows
\* it in the monitor's record of register and memory accesses, resumes and waits,
\* and no thread handle is held.
Anomalies == {<<"notify", "other">>, <<"resolve_failed">>}

C9_AnomalyIsFatal ==
    \A k \in 1 .. Len(monLog) :
        monLog[k] \in Anomalies =>
            /\ k = Len(monLog)
            /\ monPc = "exited" /\ monRet = "false"
            /\ ~thread
            /\ monLog[k] = <<"resolve_failed">> =>
                  (k > 1 /\ monLog[k - 1] = <<"notify", "arch">>)
            /\ CyclesDone = monI

C9_Witness ==
    /\ monLog # <<>> /\ monLog[Len(monLog)] = <<"resolve_failed">>
    /\ monRet = "false" /\ infPc = "faulted" /\ monI = 1

\* The reply the running test case expects to its request.
ExpectedReply == IF infId = 1 THEN MSG_RECOVERED_FROM_CRASH ELSE MSG_EXTRA_THREADS_STARTED
Unexpected(k) == ctl[k][1] = "recv" /\ ctl[k][2] # ExpectedReply

\* C10 as stated: after a reply of an unexpected kind the test case takes no
\* further step (no thread enumeration, no shutdown exchange).
C10_Original == \A k \in 1 .. Len(ctl) : Unexpected(k) => k = Len(ctl)

\* C10, amended: a reply of an unexpected kind is recorded as a failure of the
\* test case, which is never reported as passed; the case goes on with its
\* remaining steps.
C10_UnexpectedIsRecorded ==
    \A k \in 1 .. Len(ctl) : Unexpected(k) => ~all_ok /\ results[infId] # "pass"

C10_Witness ==
    /\ ctl = FullExchange(MSG_CRASH, MSG_PONG)
    /\ results[1] = "fail" /\ infExit = <<EXIT_INFERIOR_DONE>>

\* The inferior takes a message of a kind it has no case for.
TakesUnknown ==
    /\ infPc = "recv" /\ toInf # <<>> /\ Head(toInf) \in UnknownKinds
    /\ Len(toInf') < Len(toInf)

\* C11: a message of a kind msg_loop does not recognise is ignored: taking it
\* sends no reply, starts no thread, triggers no fault, ends nothing and changes
\* nothing but the queue it is removed from; msg_loop stays in its receive loop,
\* and the test cases end as they do without it (no case fails).
C11_UnknownIgnored ==
    /\ [][TakesUnknown =>
            /\ infPc' = "recv"
            /\ toInf' = Tail(toInf)
            /\ UNCHANGED <<toDrv, eportQ, extraThreads, infI, infExit, infPipeOpen, inf_done_tests, regs,
                           test_data, infId, drvVars, wdVars, monVars>>]_vars
    /\ [](\A t \in 1 .. 2 : results[t] # "fail")
    /\ [](infExit \in {<<>>, <<EXIT_INFERIOR_DONE>>, <<EXIT_MSG_LOOP_FAILED>>})

C11_Witness ==
    /\ ctl = <<<<"send", MSG_PONG>>, <<"send", MSG_CRASH>>,
               <<"recv", MSG_RECOVERED_FROM_CRASH>>, <<"send", MSG_DONE>>>>
    /\ toInf = <<>> /\ infExit = <<EXIT_INFERIOR_DONE>> /\ results[1] = "pass"

\* C12: every terminal outcome has its own exit code: the codes are pairwise
\* different; the driver ends with 5 only from its watchdog, with 0 only when every
\* case passed and with -1 only when a case failed; an inferior never ends with a
\* driver's code, ends with 20 only when its message loop failed and with 21 only
\* when the verification after a resume found bad data.
C12_ExitCodesDistinct ==
    /\ Cardinality({EXIT_WATCHDOG, EXIT_MSG_LOOP_FAILED, EXIT_BAD_DATA,
                    EXIT_INFERIOR_DONE, EXIT_SUCCESS, EXIT_TEST_FAILED}) = 6
    /\ drvExit \in {<<>>, <<EXIT_WATCHDOG>>, <<EXIT_SUCCESS>>, <<EXIT_TEST_FAILED>>}
    /\ infExit \in {<<>>, <<EXIT_MSG_LOOP_FAILED>>, <<EXIT_BAD_DATA>>, <<EXIT_INFERIOR_DONE>>}
    /\ drvExit = <<EXIT_WATCHDOG>> => wdPc = "fire" /\ wdI = WATCHDOG_DURATION_TICKS
    /\ drvExit = <<EXIT_SUCCESS>> =>
          drvPc = "join_wd" /\ wdPc = "exited" /\ \A t \in 1 .. 2 : results[t] = "pass"
    /\ drvExit = <<EXIT_TEST_FAILED>> =>
          drvPc = "join_wd" /\ wdPc = "exited" /\ \E t \in 1 .. 2 : results[t] = "fail"
    /\ infExit = <<EXIT_MSG_LOOP_FAILED>> => <<"inferior", infId>> \in closedSeen
    /\ infExit = <<EXIT_BAD_DATA>> =>
          infId = 1 /\ verifyLog # <<>> /\ verifyLog[Len(verifyLog)] = FALSE
    /\ infExit = <<EXIT_INFERIOR_DONE>> =>
          /\ <<"inferior", infId>> \notin closedSeen
          /\ \A k \in 1 .. Len(verifyLog) : verifyLog[k] = TRUE

\* The watchdog ended the driver after the inferior had ended itself on bad data.
C12_Witness ==
    /\ drvExit = <<EXIT_WATCHDOG>> /\ infExit = <<EXIT_BAD_DATA>>
    /\ results = [t \in 1 .. 2 |-> "none"]

\* EXTRA_THREADS_STARTED messages the inferior has produced so far.
StartedProduced ==
    Count(toDrv, MSG_EXTRA_THREADS_STARTED) + Count(ctl, <<"recv", MSG_EXTRA_THREADS_STARTED>>)

\* The driver has enumerated the threads after the reply to START_EXTRA_THREADS.
EnumeratedAfterStarted ==
    /\ Len(ctl) >= 3
    /\ ctl[2] = <<"recv", MSG_EXTRA_THREADS_STARTED>>
    /\ ctl[3] = <<"enumerate", "threads">>

\* C13: EXTRA_THREADS_STARTED is sent only after all NUM_EXTRA_THREADS threads were
\* created, and no extra thread ever ends while the inferior lives; so an
\* enumeration made after that reply lists at least 1 + NUM_EXTRA_THREADS threads,
\* and every entry is looked up while the inferior and its threads still exist.
C13_ThreadsListed ==
    /\ [](infId = 2 /\ StartedProduced > 0 => extraThreads = NUM_EXTRA_THREADS)
    /\ [][infId' = infId => extraThreads' >= extraThreads]_vars
    /\ [](EnumeratedAfterStarted =>
            /\ numThreads >= 1 + NUM_EXTRA_THREADS
            /\ drvPc # "tl_setup")
    /\ [](drvPc = "tl_verify" /\ DrvAlive =>
            /\ InfAlive /\ ThreadCount = numThreads
            /\ ExpectEq(TRUE, InfAlive, TRUE))

C13_Witness ==
    /\ EnumeratedAfterStarted /\ drvPc = "tl_verify"
    /\ numThreads = 1 + NUM_EXTRA_THREADS /\ tlIdx = numThreads /\ all_ok

\* C14: done_tests is monotonic in each process.  It starts false and never goes
\* back to false.  In the driver only main writes it, once, after both test cases
\* have returned; in an inferior only test_inferior writes it, once, after msg_loop
\* has returned, on the way to exit(1234).  No step of the watchdog changes it.
C14_DoneTestsMonotonic ==
    /\ ~done_tests /\ ~inf_done_tests
    /\ [][done_tests => done_tests']_vars
    /\ [][done_tests' # done_tests =>
            /\ drvPc = "set_done" /\ drvPc' = "join_wd"
            /\ \A t \in 1 .. 2 : results[t] # "none"]_vars
    /\ [][drvPc = "join_wd" => drvPc' = "join_wd"]_vars
    /\ [](drvPc = "join_wd" <=> done_tests)
    /\ [][(inf_done_tests /\ infId' = infId) => inf_done_tests']_vars
    /\ [][(inf_done_tests' # inf_done_tests /\ infId' = infId) =>
            infPc = "done" /\ infPc' = "exited"]_vars
    /\ [](inf_done_tests <=> infExit = <<EXIT_INFERIOR_DONE>>)
    /\ [][(wdPc' # wdPc \/ wdI' # wdI) => done_tests' = done_tests]_vars

C14_Witness ==
    /\ done_tests /\ inf_done_tests /\ infId = 2
    /\ wdPc = "exited" /\ drvExit = <<EXIT_SUCCESS>>

\* The inferior takes a DONE message.
TakesDone ==
    /\ infPc = "recv" /\ toInf # <<>> /\ Head(toInf) = MSG_DONE
    /\ Len(toInf') < Len(toInf)

\* C15: DONE is the only request without a reply.  Taking DONE sends nothing and
\* leaves the receive loop; after it the inferior takes no message and sends none,
\* and its only further step is to exit with code 1234 (never 20 or 21).  The
\* requests CRASH and START_EXTRA_THREADS are left for the receive loop only by
\* sending their reply.
C15_DoneHasNoReply ==
    /\ [][TakesDone => (infPc' = "done" /\ toDrv' = toDrv /\ toInf' = Tail(toInf))]_vars
    /\ [][infPc = "done" =>
            /\ toInf' = toInf /\ Len(toDrv') <= Len(toDrv)
            /\ \/ infPc' = "done" /\ infExit' = <<>>
               \/ infPc' = "exited" /\ infExit' = <<EXIT_INFERIOR_DONE>>]_vars
    /\ [](infPc = "done" => infExit = <<>> /\ toDrv = <<>> /\ ~pipeOpen)
    /\ [][(infPc \in {"reply_crash", "reply_threads"} /\ infPc' # infPc) =>
            /\ infPc' = "recv"
            /\ pipeOpen => toDrv' = Append(toDrv, IF infPc = "reply_crash"
                                                  THEN MSG_RECOVERED_FROM_CRASH
                                                  ELSE MSG_EXTRA_THREADS_STARTED)]_vars
    /\ [][(infPc # "recv" /\ infPc' = "recv" /\ infId' = infId) =>
            infPc \in {"reply_crash", "reply_threads"}]_vars

C15_Witness ==
    /\ infExit = <<EXIT_INFERIOR_DONE>> /\ infId = 2 /\ toInf = <<>> /\ toDrv = <<>>
    /\ ctl[Len(ctl)] = <<"send", MSG_DONE>> /\ drvPc = "tl_wait_inf"

\* Test case t has returned to RUN_TEST after its setup_inferior had succeeded,
\* and the driver has not gone on to anything that touches the record of the case.
ReturnedAfterSetup(t) ==
    /\ DrvAlive /\ results[t] # "none" /\ infId = t /\ ctl # <<>>
    /\ drvPc = (IF t = 1 THEN "tl_setup" ELSE "set_done")

ShutdownCalled == \E k \in 1 .. Len(ctl) : ctl[k] = <<"send", MSG_DONE>>

\* C16 as stated: whenever a test case returns after a successful setup_inferior,
\* shutdown_inferior has been called, and neither the control channel nor the
\* exception channel of its inferior is open.
C16_Original ==
    \A t \in 1 .. 2 :
        ReturnedAfterSetup(t) =>
            /\ ShutdownCalled
            /\ ~pipeOpen
            /\ t = 1 => ~eportOpen

\* debugger_test returned from its failed recv_msg: no shutdown_inferior, both
\* channels still open, and the monitor thread still waiting on the exception port.
C16_Leak ==
    /\ ReturnedAfterSetup(1) /\ results[1] = "fail" /\ ~ShutdownCalled
    /\ pipeOpen /\ eportOpen /\ monPc = "wait"
    /\ infExit = <<EXIT_BAD_DATA>>

\* Architectural faults the inferior's main thread has raised so far.
FaultsRaised == Count(monLog, <<"notify", "arch">>) + Count(eportQ, "arch")

ResumeRequests == {<<"resume">>, <<"resume_failed">>}

\* C17: the steps of a monitor cycle are ordered and happen once.  The fixup
\* comes directly after the memory read and write, one resume request comes
\* directly after each fixup, and a notification is waited for only after the
\* resume of the cycle before (and the release of its handle).  The inferior is
\* suspended from a fault until its resume, passes the faulting instruction only
\* after it, and one fixup is enough: a resumed thread does not fault again on
\* the same instruction.
C17_CycleOrder ==
    /\ \A k \in 1 .. Len(monLog) :
          /\ monLog[k] = <<"fix">> =>
                /\ k > 2 /\ monLog[k - 1] = <<"mem_write">> /\ monLog[k - 2] = <<"mem_read">>
                /\ k < Len(monLog) => monLog[k + 1] \in ResumeRequests
                /\ k = Len(monLog) => monPc = "resume"
          /\ monLog[k] \in ResumeRequests => k > 1 /\ monLog[k - 1] = <<"fix">>
          /\ monLog[k] = <<"mem_read">> =>
                k > 3 /\ monLog[k - 3] = <<"notify", "arch">> /\ monLog[k - 2] = <<"resolved">>
          /\ (monLog[k][1] = "notify" /\ k > 1) =>
                k > 2 /\ monLog[k - 1] = <<"close">> /\ monLog[k - 2] = <<"resume">>
    /\ Count(monLog, <<"fix">>) = Count(monLog, <<"mem_write">>) - (IF monPc = "fix" THEN 1 ELSE 0)
    /\ Count(monLog, <<"fix">>) = CyclesDone + Count(monLog, <<"resume_failed">>)
                                    + (IF monPc = "resume" THEN 1 ELSE 0)
    /\ infId = 1 =>
          /\ FaultsRaised \in {CyclesDone, CyclesDone + 1}
          /\ FaultsRaised > CyclesDone => infPc = "faulted"
          /\ infPc = "verify" => CyclesDone = Len(verifyLog) + 1
          /\ Len(verifyLog) \in {CyclesDone - 1, CyclesDone}

C17_Witness ==
    /\ Len(monLog) = 8 * NUM_SEGV_TRIES /\ CyclesDone = NUM_SEGV_TRIES
    /\ Count(monLog, <<"fix">>) = NUM_SEGV_TRIES
    /\ infPc = "reply_crash" /\ monPc = "check"

\* The k-th call of test_memory_ops saw a short read, a byte that differs from the
\* seed, or a short write.
DataFailure(k) ==
    \/ readLog[k].n # TEST_MEMORY_SIZE
    \/ readLog[k].bytes # Seed
    \/ writeLog[k].n # TEST_MEMORY_SIZE

\* C18: a data-integrity failure in test_memory_ops is recorded as a failure of
\* the test case and does not end the monitor cycle: the monitor always goes from
\* test_memory_ops to the fixup, the fixup and the resume request follow for that
\* fault too, and after a successful resume the loop goes round.
C18_DataFailureGoesOn ==
    /\ [][(monPc = "memops" /\ monPc' # monPc) => (monPc' = "fix" /\ monRet' = "none")]_vars
    /\ [](\A k \in 1 .. Len(readLog) :
            (DataFailure(k) /\ infId = 1) =>
                /\ results[1] # "pass"
                /\ results[1] = "none" => ~all_ok
                /\ Count(monLog, <<"fix">>) >= k - (IF monPc = "fix" THEN 1 ELSE 0)
                /\ Count(monLog, <<"resume">>) + Count(monLog, <<"resume_failed">>)
                      >= k - (IF monPc \in {"fix", "resume"} THEN 1 ELSE 0)
                /\ (k <= CyclesDone /\ monPc \notin {"close_ok", "exited"}) => monI >= k)
    /\ [](monRet = "false" =>
            \/ monLog[Len(monLog)] \in {<<"notify", "other">>, <<"resolve_failed">>,
                                        <<"notify", "gone">>}
            \/ /\ monLog[Len(monLog)] = <<"close">>
               /\ monLog[Len(monLog) - 1] = <<"resume_failed">>)

\* A short read in the first cycle: the fault was fixed and resumed all the same,
\* and the monitor was back waiting in its second iteration.
C18_Witness ==
    /\ Len(readLog) = 1 /\ readLog[1].n < TEST_MEMORY_SIZE /\ writeLog[1].n = TEST_MEMORY_SIZE
    /\ Count(monLog, <<"fix">>) = 1 /\ CyclesDone = 1
    /\ monI = 1 /\ monLog[Len(monLog)] = <<"notify", "gone">> /\ ~all_ok

\* C19: a resumed inferior that finds a byte different from i+TEST_DATA_ADJUST
\* exits with code 21 at once: the failed verification is its last, it raises no
\* further fault, sends nothing, and no RECOVERED_FROM_CRASH is ever produced or
\* received for that CRASH.
C19_BadDataExits ==
    /\ [](\A k \in 1 .. Len(verifyLog) :
            verifyLog[k] = FALSE =>
                /\ k = Len(verifyLog)
                /\ infPc = "exited" /\ infExit = <<EXIT_BAD_DATA>> /\ ~infPipeOpen
                /\ FaultsRaised = k
                /\ RecoveredProduced = 0 /\ toDrv = <<>>
                /\ msg # MSG_RECOVERED_FROM_CRASH)
    /\ [][(infPc = "verify" /\ infPc' = "exited") =>
            (infExit' = <<EXIT_BAD_DATA>> /\ toDrv' = toDrv /\ toInf' = toInf)]_vars
    /\ [][(infPc = "verify" /\ \E i \in Idx : test_data[i] # i + TEST_DATA_ADJUST) =>
            infPc' \in {"verify", "exited"}]_vars

C19_Witness ==
    /\ verifyLog = <<TRUE, FALSE>> /\ infExit = <<EXIT_BAD_DATA>>
    /\ ctl = <<<<"send", MSG_CRASH>>>> /\ results[1] = "fail"

\* Positions of the monitor between mx_object_get_child and tu_handle_close.
InCycle == {"memops", "fix", "resume", "close_ok", "close_err"}

\* C20: thread handles in the monitor are transient.  A handle is obtained only by
\* resolving a notification's thread, and only when none is held; it is held from
\* there to the close of the same cycle and released there on both paths, after a
\* resume that succeeded and after one that failed; none is held while the monitor
\* waits, resolves, or has finished.
C20_HandleTransient ==
    /\ [](thread <=> monPc \in InCycle)
    /\ [][(monPc = "resolve" /\ monPc' = "memops") => (~thread /\ thread')]_vars
    /\ [][(~thread /\ thread') => (monPc = "resolve" /\ monPc' = "memops")]_vars
    /\ [][(thread /\ ~thread') =>
            (monPc \in {"close_ok", "close_err"} /\ monPc' \in {"wait", "check", "exited"})]_vars
    /\ [](Count(monLog, <<"close">>) = Count(monLog, <<"resolved">>) - (IF thread THEN 1 ELSE 0))
    /\ [](monRet # "none" => ~thread)

C20_Witness ==
    /\ Len(monLog) > 1 /\ monLog[Len(monLog)] = <<"close">>
    /\ monLog[Len(monLog) - 1] = <<"resume_failed">>
    /\ monPc = "exited" /\ monRet = "false" /\ ~thread /\ monI = 1

\* Positions from which the monitor's next step reads its argument array
\* (lines 97-99), waits on the exception port (line 106) or passes the inferior's
\* process handle to the kernel (lines 120, 58, 68).
UsesInferior == {"start", "wait", "resolve", "memops"}

\* shutdown_inferior has released the exception port and the process handle.
Released == DrvAlive /\ infId = 1 /\ ShutdownCalled /\ ~eportOpen

\* C21 as stated: the monitor never outlives the inferior.  Once debugger_test has
\* returned, the monitor thread has ended (it was joined); and once
\* shutdown_inferior has released the process handle and the exception port, the
\* monitor is at no position from which it goes on to use them.
C21_Original ==
    /\ results[1] # "none" => monPc \in {"none", "exited"}
    /\ Released => monPc \notin UsesInferior

\* debugger_thread_list_test is running while the monitor thread of debugger_test,
\* never joined, is about to take the process-gone packet from the exception port.
C21_Outlives ==
    /\ results[1] = "fail" /\ infId = 2 /\ drvPc = "tl_recv"
    /\ monPc = "wait" /\ eportOpen /\ eportQ # <<>> /\ Head(eportQ) = "gone"

\* C22: a process-gone notification never leads to a successful run of the
\* monitor.  It is received only with fewer than NUM_SEGV_TRIES cycles complete
\* and is the last thing the monitor does with the inferior: no thread is
\* resolved and no resume is issued after it; the loop is left, the count check
\* fails, and wait_inferior_thread_worker returns false.
C22_GoneIsFailure ==
    \A k \in 1 .. Len(monLog) :
        monLog[k] = <<"notify", "gone">> =>
            /\ k = Len(monLog)
            /\ monI < NUM_SEGV_TRIES /\ CyclesDone = monI
            /\ Count(monLog, <<"resolved">>) = monI
            /\ ~thread
            /\ monPc \in {"check", "exited"}
            /\ monRet # "true"
            /\ monPc = "exited" => monRet = "false"

C22_Witness ==
    /\ monLog # <<>> /\ monLog[Len(monLog)] = <<"notify", "gone">>
    /\ monI = 2 /\ monPc = "exited" /\ monRet = "false"
====
